---------------------------- MODULE Spec2Model ----------------------------
(***************************************************************************)
(* A model of metapool/count.py: the aggregation of per-sample, per-lane   *)
(* read counts of a sequencing run (demultiplexing report, fastp reports,  *)
(* samtools logs, fastq files) into one table.                             *)
(*                                                                         *)
(* Strings.  A character is a one-character TLA+ string.  A filename is    *)
(* the sequence of its underscore-separated fields, and a field is the     *)
(* sequence of its characters: "A_S1_L001_R1_001.json" is                  *)
(*   << <<"A">>, <<"S","1">>, <<"L","0","0","1">>, <<"R","1">>,            *)
(*      <<"0","0","1",".json">> >>                                         *)
(* (a file extension is kept as one token, no pattern of the program looks *)
(* inside it).  A string and its field sequence determine each other, so   *)
(* the regular expressions and glob patterns of the program are modelled   *)
(* on fields without loss.  A sample name is a sequence of fields too.     *)
(***************************************************************************)
EXTENDS Integers, Sequences, FiniteSets, TLC

VARIABLES
    pc,        \* position of the driver: which inputs are built, which call ran
    filename,  \* the argument of _extract_name_and_lane
    sheet,     \* the sample sheet: records Sample_ID, Sample_Project, Lane
    fs,        \* the run directory
    result,    \* what the last call returned or raised
    locals     \* the locals of a running count_sequences_in_fastq

vars == <<pc, filename, sheet, fs, result, locals>>

(***************************************************************************)
(* Bounds of the model.                                                    *)
(***************************************************************************)
MaxFields == 5
MaxFastq == 4

(***************************************************************************)
(* Characters.                                                             *)
(***************************************************************************)
Digit == {"0", "1", "2", "3", "4", "5", "6", "7", "8", "9"}

AllDigits(s) == \A k \in 1..Len(s) : s[k] \in Digit

NoResult == [kind |-> "none"]
NoLocals == [none |-> TRUE]

(***************************************************************************)
(* SAMPLE_PATTERN under re.match: any prefix, then "_S" and 1 to 4 digits, *)
(* "_L" and 1 to 3 digits, "_", one of R I, one of 1 2, then anything.     *)
(* Groups 2 and 3 are delimited by underscores on both sides and hold      *)
(* none, so each is a whole field; group 4 starts a field; group 1 is      *)
(* every field before group 2 (at least one, possibly empty).              *)
(***************************************************************************)
IsCellField(f) == /\ Len(f) >= 2 /\ Len(f) <= 5
                  /\ f[1] = "S"
                  /\ AllDigits(Tail(f))

IsLaneField(f) == /\ Len(f) >= 2 /\ Len(f) <= 4
                  /\ f[1] = "L"
                  /\ AllDigits(Tail(f))

IsReadField(f) == /\ Len(f) >= 2
                  /\ f[1] \in {"R", "I"}
                  /\ f[2] \in {"1", "2"}

\* the pattern matches with group 2 at field i
MatchAt(fn, i) == /\ i >= 2 /\ i + 2 <= Len(fn)
                  /\ IsCellField(fn[i])
                  /\ IsLaneField(fn[i + 1])
                  /\ IsReadField(fn[i + 2])

\* group 1 is greedy: the engine tries the longest group 1 first and backtracks
RECURSIVE Backtrack(_, _)
Backtrack(fn, i) == IF i < 2 THEN 0
                    ELSE IF MatchAt(fn, i) THEN i
                    ELSE Backtrack(fn, i - 1)

\* the field index of group 2, 0 when re.match returns None
SAMPLE_PATTERN(fn) == Backtrack(fn, Len(fn) - 2)

\* str.lstrip('0'), a mutant of it that strips every zero
RECURSIVE StripAllZeros(_)
StripAllZeros(s) == IF s = <<>> THEN <<>>
                    ELSE IF Head(s) = "0" THEN StripAllZeros(Tail(s))
                    ELSE <<Head(s)>> \o StripAllZeros(Tail(s))

RECURSIVE lstrip0(_)
lstrip0(s) == IF s # <<>> /\ Head(s) = "0" THEN lstrip0(Tail(s)) ELSE s

_extract_name_and_lane(fn) ==
    LET search == SAMPLE_PATTERN(fn) IN
    IF search = 0
    THEN [ok |-> FALSE, name |-> <<>>, lane |-> <<>>]   \* ValueError
    ELSE [ok |-> TRUE,
          name |-> SubSeq(fn, 1, search - 1),
          lane |-> lstrip0(Tail(fn[search + 1]))]

(***************************************************************************)
(* Specification SpecName: _extract_name_and_lane on every filename of at  *)
(* most MaxFields fields drawn from NameFields.                            *)
(***************************************************************************)
NameFields ==
    { <<"A">>,
      <<"S", "1">>, <<"S", "1", "2", "3", "4", "5">>,
      <<"L", "0", "0", "1">>, <<"L", "0", "1", "0">>,
      <<"L", "0", "0", "0", "1">>,
      <<"R", "1">>, <<"R", "3">>, <<"I", "2", ".json">> }

NoFs == [none |-> TRUE]

InitName == /\ pc = "name"
            /\ filename = <<>>
            /\ sheet = {}
            /\ fs = NoFs
            /\ result = NoResult
            /\ locals = NoLocals

AppendField(f) == /\ pc = "name"
                  /\ Len(filename) < MaxFields
                  /\ filename' = Append(filename, f)
                  /\ UNCHANGED <<pc, sheet, fs, result, locals>>

CallExtract == /\ pc = "name"
               /\ filename # <<>>
               /\ result' = [kind |-> "name"] @@ _extract_name_and_lane(filename)
               /\ pc' = "name_done"
               /\ UNCHANGED <<filename, sheet, fs, locals>>

NextName == \/ \E f \in NameFields : AppendField(f)
            \/ CallExtract

SpecName == InitName /\ [][NextName]_vars

(***************************************************************************)
(* Values and tables.  A number is <<"num", n, d>>, the fraction n/d in    *)
(* lowest terms (the program's float64); <<"nan">> is a missing value,     *)
(* <<"inf">> the quotient of a positive number by zero, <<"NA">> the       *)
(* string 'NA'.  A frame is a function from row labels to rows (a          *)
(* sequence is one); an indexed table is the set of its rows, each with    *)
(* its Sample_ID and Lane.                                                 *)
(***************************************************************************)
RECURSIVE gcd(_, _)
gcd(a, b) == IF b = 0 THEN a ELSE gcd(b, a % b)

Quot(n, d) == <<"num", n \div gcd(n, d), d \div gcd(n, d)>>
Float(n) == <<"num", n, 1>>
NaN == <<"nan">>
Inf == <<"inf">>
NA == <<"NA">>

\* str() of a natural number
DigitOf == <<"0", "1", "2", "3", "4", "5", "6", "7", "8", "9">>
RECURSIVE str(_)
str(n) == IF n < 10 THEN <<DigitOf[n + 1]>>
          ELSE Append(str(n \div 10), DigitOf[(n % 10) + 1])

Key(r) == <<r.Sample_ID, r.Lane>>

\* what a call returns or raises: msg tells the messages of the ValueErrors
\* apart, pairs is the (sample, lane) pairs a message lists, warnings the sets
\* of names the warnings emitted before the end of the call list
Returned(t, w) == [kind |-> "table", error |-> "", msg |-> "", table |-> t,
                   pairs |-> {}, warnings |-> w]
Raise(e, m, p, w) == [kind |-> "error", error |-> e, msg |-> m, table |-> {},
                      pairs |-> p, warnings |-> w]
Raised(e, w) == Raise(e, "", {}, w)

\* a set_index that does not verify, for comparison
set_index_unverified(frame) == Returned({frame[a] : a \in DOMAIN frame}, {})

\* DataFrame.set_index(['Sample_ID', 'Lane'], verify_integrity=True)
set_index(frame) ==
    IF \E a, b \in DOMAIN frame : a # b /\ Key(frame[a]) = Key(frame[b])
    THEN Raised("ValueError", {})
    ELSE Returned({frame[a] : a \in DOMAIN frame}, {})

(***************************************************************************)
(* The demultiplexing reports.  Stats/Stats.json is a JSON document: a     *)
(* record whose ConversionResults is a sequence of lane blocks, a lane     *)
(* block a record with LaneNumber and DemuxResults, a sequence of records  *)
(* with SampleId and NumberReads.  A key may be absent.                    *)
(* Reports/Demultiplex_Stats.csv is its rows: SampleID, Lane, Reads (the   *)
(* column '# Reads').                                                      *)
(***************************************************************************)
Undetermined == << <<"Undetermined">> >>

RECURSIVE concat_lanes(_)
concat_lanes(lanes) ==
    IF lanes = <<>> THEN <<>>
    ELSE LET lane == Head(lanes) IN
         [k \in 1..Len(lane.DemuxResults) |->
             [Sample_ID |-> lane.DemuxResults[k].SampleId,
              Lane |-> str(lane.LaneNumber),
              raw_reads_r1r2 |-> Float(lane.DemuxResults[k].NumberReads)]]
         \o concat_lanes(Tail(lanes))

_bcl2fastq_counts(contents) ==
    IF "ConversionResults" \notin DOMAIN contents
    THEN Raised("KeyError", {})                      \* _safe_get
    ELSE LET lanes == contents.ConversionResults IN
         IF \E i \in 1..Len(lanes) :
                {"DemuxResults", "LaneNumber"} \ DOMAIN lanes[i] # {}
         THEN Raised("KeyError", {})                 \* _safe_get
         ELSE IF lanes = <<>>
         THEN Raised("ValueError", {})               \* pd.concat of no frame
         ELSE IF concat_lanes(lanes) = <<>>
         THEN Raised("KeyError", {})                 \* no column Sample_ID
         ELSE set_index(concat_lanes(lanes))

\* df.loc[df['SampleID'] != 'Undetermined'], the rows kept in order
RECURSIVE determined(_)
determined(rows) ==
    IF rows = <<>> THEN <<>>
    ELSE IF Head(rows).SampleID # Undetermined
    THEN <<Head(rows)>> \o determined(Tail(rows))
    ELSE determined(Tail(rows))

_bclconvert_counts(rows) ==
    LET df == determined(rows) IN
    set_index([k \in 1..Len(df) |->
                  [Sample_ID |-> df[k].SampleID,
                   Lane |-> str(df[k].Lane),
                   raw_reads_r1r2 |-> Float(df[k].Reads * 2)]])

bcl2fastq_counts(run_dir) ==
    IF run_dir.stats.exists
    THEN IF run_dir.csv.exists
         THEN Raised("IOError", {})
         ELSE _bcl2fastq_counts(run_dir.stats.doc)
    ELSE IF run_dir.csv.exists
    THEN _bclconvert_counts(run_dir.csv.rows)
    ELSE Raised("IOError", {})

(***************************************************************************)
(* The run directory: the two reports and the files of the projects'       *)
(* subdirectories.  A file is a record project, subdir, name, content; no  *)
(* two files of a directory have the same name.                            *)
(***************************************************************************)
EmptyDoc == [ConversionResults |-> <<>>]
EmptyRun == [stats |-> [exists |-> FALSE, doc |-> EmptyDoc],
             csv |-> [exists |-> FALSE, rows |-> <<>>],
             dirs |-> {},
             files |-> {}]

NameA == << <<"A">> >>
NameB == << <<"B">> >>
NameX == << <<"X">> >>

\* Stats.json is written, with or without its ConversionResults
TouchStats(doc) ==
    /\ pc = "build"
    /\ ~fs.stats.exists
    /\ fs.csv.rows = <<>>
    /\ fs' = [fs EXCEPT !.stats = [exists |-> TRUE, doc |-> doc]]
    /\ UNCHANGED <<pc, filename, sheet, result, locals>>

\* a lane block is appended to Stats.json
AddLane(block, MaxL) ==
    /\ pc = "build"
    /\ fs.stats.exists
    /\ "ConversionResults" \in DOMAIN fs.stats.doc
    /\ Len(fs.stats.doc.ConversionResults) < MaxL
    /\ fs.csv.rows = <<>>
    /\ fs' = [fs EXCEPT !.stats.doc.ConversionResults = Append(@, block)]
    /\ UNCHANGED <<pc, filename, sheet, result, locals>>

DemuxResultCount(lanes) ==
    LET RECURSIVE count(_)
        count(ls) == IF ls = <<>> THEN 0
                     ELSE (IF "DemuxResults" \in DOMAIN Head(ls)
                           THEN Len(Head(ls).DemuxResults) ELSE 0)
                          + count(Tail(ls))
    IN count(lanes)

\* a sample's result is appended to the last lane block of Stats.json
AddDemuxResult(s, n, MaxR) ==
    /\ pc = "build"
    /\ fs.stats.exists
    /\ "ConversionResults" \in DOMAIN fs.stats.doc
    /\ LET lanes == fs.stats.doc.ConversionResults IN
       /\ lanes # <<>>
       /\ "DemuxResults" \in DOMAIN lanes[Len(lanes)]
       /\ DemuxResultCount(lanes) < MaxR
       /\ fs' = [fs EXCEPT
                   !.stats.doc.ConversionResults[Len(lanes)].DemuxResults =
                       Append(@, [SampleId |-> s, NumberReads |-> n])]
    /\ UNCHANGED <<pc, filename, sheet, result, locals>>

\* Demultiplex_Stats.csv is written (its header)
TouchCsv ==
    /\ pc = "build"
    /\ ~fs.csv.exists
    /\ fs.stats.doc = EmptyDoc
    /\ fs' = [fs EXCEPT !.csv.exists = TRUE]
    /\ UNCHANGED <<pc, filename, sheet, result, locals>>

\* a row is appended to Demultiplex_Stats.csv
AddCsvRow(s, l, n, MaxR) ==
    /\ pc = "build"
    /\ fs.csv.exists
    /\ Len(fs.csv.rows) < MaxR
    /\ fs.stats.doc = EmptyDoc
    /\ fs' = [fs EXCEPT !.csv.rows =
                 Append(@, [SampleID |-> s, Lane |-> l, Reads |-> n])]
    /\ UNCHANGED <<pc, filename, sheet, result, locals>>

(***************************************************************************)
(* Specification SpecDemux: bcl2fastq_counts on run directories with       *)
(* neither, either or both reports.  The rows of a report are written      *)
(* while the other report is absent or empty (the program reads no report  *)
(* when both exist).                                                       *)
(***************************************************************************)
MaxDemuxRows == 3
MaxLaneBlocks == 2

DemuxSamples == {NameA, Undetermined}
DemuxLanes == {1, 2}
DemuxReads == {0, 1}

LaneBlocks == {[LaneNumber |-> l, DemuxResults |-> <<>>] : l \in DemuxLanes}
              \cup {[LaneNumber |-> 1]}

InitDemux == /\ pc = "build"
             /\ filename = <<>>
             /\ sheet = {}
             /\ fs = EmptyRun
             /\ result = NoResult
             /\ locals = NoLocals

CallBcl2fastqCounts ==
    /\ pc = "build"
    /\ result' = bcl2fastq_counts(fs)
    /\ pc' = "demux_done"
    /\ UNCHANGED <<filename, sheet, fs, locals>>

NextDemux ==
    \/ \E doc \in {EmptyDoc, [Flowcell |-> "x"]} : TouchStats(doc)
    \/ \E b \in LaneBlocks : AddLane(b, MaxLaneBlocks)
    \/ \E s \in DemuxSamples, n \in DemuxReads :
           AddDemuxResult(s, n, MaxDemuxRows)
    \/ TouchCsv
    \/ \E s \in DemuxSamples, l \in DemuxLanes, n \in DemuxReads :
           AddCsvRow(s, l, n, MaxDemuxRows)
    \/ CallBcl2fastqCounts

SpecDemux == InitDemux /\ [][NextDemux]_vars

(***************************************************************************)
(* Log files.  A fastp report is a JSON document (a record; a key may be   *)
(* absent).  A samtools log is the sequence of its lines, a line the       *)
(* sequence of its words, a number the sequence of its digits.             *)
(***************************************************************************)
\* int() of a digit string
RECURSIVE int(_)
int(ds) == IF ds = <<>> THEN 0
           ELSE 10 * int(SubSeq(ds, 1, Len(ds) - 1))
                + (CHOOSE n \in 0..9 : DigitOf[n + 1] = ds[Len(ds)])

Parsed(v) == [ok |-> TRUE, value |-> v]
Malformed_log == [ok |-> FALSE, value |-> NaN]        \* ValueError

_parse_fastp_counts(stats) ==
    IF \/ "summary" \notin DOMAIN stats
       \/ "after_filtering" \notin DOMAIN stats.summary
       \/ "total_reads" \notin DOMAIN stats.summary.after_filtering
    THEN Malformed_log
    ELSE Parsed(Float(stats.summary.after_filtering.total_reads))

\* SAMTOOLS_PATTERN under re.match: the text starts with a bracketed tag (no
\* line break in it), then " processed ", digits, " reads"
SAMTOOLS_PATTERN(text) ==
    /\ text # <<>>
    /\ Len(text[1]) >= 4
    /\ text[1][1][1] = "["
    /\ \E k \in 1..(Len(text[1]) - 3) :
          /\ text[1][k][Len(text[1][k])] = "]"
          /\ text[1][k + 1] = <<"processed">>
          /\ text[1][k + 2] # <<>> /\ AllDigits(text[1][k + 2])
          /\ text[1][k + 3] = <<"reads">>

\* the digits of group 1: the tag is greedy, the last reading is taken
samtools_group1(text) ==
    LET ks == {k \in 1..(Len(text[1]) - 3) :
                  /\ text[1][k][Len(text[1][k])] = "]"
                  /\ text[1][k + 1] = <<"processed">>
                  /\ text[1][k + 2] # <<>> /\ AllDigits(text[1][k + 2])
                  /\ text[1][k + 3] = <<"reads">>}
    IN text[1][(CHOOSE k \in ks : \A j \in ks : j <= k) + 2]

\* a mutant: the count of both directions is kept
_parse_samtools_counts_undivided(text) ==
    IF ~SAMTOOLS_PATTERN(text) THEN Malformed_log
    ELSE Parsed(Quot(int(samtools_group1(text)), 1))

_parse_samtools_counts(text) ==
    IF ~SAMTOOLS_PATTERN(text) THEN Malformed_log
    ELSE Parsed(Quot(int(samtools_group1(text)), 2))

FastpReport(n) == [summary |-> [after_filtering |-> [total_reads |-> n]]]
FastpTruncated == [summary |-> [before_filtering |-> [total_reads |-> 0]]]

SamtoolsLog(ds) == << << <<"[", "x", "]">>, <<"processed">>, ds, <<"reads">> >> >>
SamtoolsOther == << << <<"[", "x", "]">>, <<"discarded">>, <<"0">>,
                       <<"singletons">> >>,
                    << <<"[", "x", "]">>, <<"processed">>, <<"4", "0">>,
                       <<"reads">> >> >>

(***************************************************************************)
(* _parsefier.                                                             *)
(***************************************************************************)
\* str.zfill(width) of a digit string
RECURSIVE zfill(_, _)
zfill(s, width) == IF Len(s) >= width THEN s ELSE zfill(<<"0">> \o s, width)

\* glob's pattern '*_L{lane}_R1_001' + suffix on a basename: the three last
\* fields are fixed, any fields precede them
glob_log(name, lane, suffix) ==
    /\ Len(name) >= 4
    /\ name[Len(name) - 2] = <<"L">> \o lane
    /\ name[Len(name) - 1] = <<"R", "1">>
    /\ name[Len(name)] = <<"0", "0", "1">> \o suffix

\* projects and expected of the sample sheet
projects(metadata) == {<<s.Sample_Project, s.Lane>> : s \in metadata}
expected(metadata) == {s.Sample_ID : s \in metadata}

\* the (project, lane, log) of the loops: every log the glob of a project
\* and lane returns
logs(run_dir, metadata, subdir, suffix) ==
    UNION {{[project |-> pl[1], lane |-> pl[2], log |-> f] :
               f \in {g \in run_dir.files :
                        /\ g.project = pl[1]
                        /\ g.subdir = subdir
                        /\ glob_log(g.name, zfill(pl[2], 3), suffix)}} :
           pl \in projects(metadata)}

\* the frame out: one row per appended log
out_frame(located) ==
    [l \in located |->
        [Sample_ID |-> _extract_name_and_lane(l.log.name).name,
         Lane |-> _extract_name_and_lane(l.log.name).lane,
         Sample_Project |-> l.project,
         path |-> l.log]]

\* a mutant: nothing is ignored
isin_anything(out, names) == DOMAIN out

\* out[out['Sample_ID'].isin(expected)]: the labels of the rows kept
isin(out, names) == {l \in DOMAIN out : out[l].Sample_ID \in names}

\* a mutant: no duplicate is looked for
duplicated_none(out, kept) == {}

\* the (Sample_ID, Lane) of the rows out.duplicated(subset=...) marks: every
\* row whose pair a row before it has, so every pair that two rows have
duplicated(out, kept) ==
    {Key(out[l]) : l \in {k \in kept :
        \E k2 \in kept : k2 # k /\ Key(out[k2]) = Key(out[k])}}

\* if expected > found: warnings.warn(... expected - found)
missing_warning(names, found) ==
    IF found \subseteq names /\ found # names THEN {names \ found} ELSE {}

\* out['path'].apply(funk): funk is one of the two parsers, passed by name
apply(funk, path) ==
    IF funk = "_parse_fastp_counts"
    THEN _parse_fastp_counts(path)
    ELSE _parse_samtools_counts(path)

_parsefier(run_dir, metadata, subdir, suffix, name, funk) ==
    LET located == logs(run_dir, metadata, subdir, suffix) IN
    IF \E l \in located : ~_extract_name_and_lane(l.log.name).ok
    THEN Raise("ValueError", "Unrecognized filename pattern", {}, {})
    ELSE
    LET out == out_frame(located)
        found == {out[l].Sample_ID : l \in located}
        kept == isin(out, expected(metadata))
        pairs == duplicated(out, kept)
        warned == missing_warning(expected(metadata), found)
    IN  IF pairs # {}
        THEN Raise("ValueError", "Multiple matches found", pairs, {})
        ELSE IF \E l \in kept : ~apply(funk, out[l].path.content).ok
        THEN Raise("ValueError", "log is malformed", {}, warned)
        ELSE [set_index([l \in kept |->
                  [Sample_ID |-> out[l].Sample_ID, Lane |-> out[l].Lane]
                  @@ (name :> apply(funk, out[l].path.content).value)])
              EXCEPT !.warnings = warned]

fastp_counts(run_dir, metadata) ==
    _parsefier(run_dir, metadata, "json", <<".json">>,
               "total_biological_reads_r1r2", "_parse_fastp_counts")

minimap2_counts(run_dir, metadata) ==
    _parsefier(run_dir, metadata, "samtools", <<".log">>,
               "non_host_reads", "_parse_samtools_counts")

(***************************************************************************)
(* Fastq files.  The content of a fastq file is the number of its records  *)
(* and the quality-score variants under which skbio reads it to its end.   *)
(***************************************************************************)
variants == <<"illumina1.8", "illumina1.3", "sanger">>

RECURSIVE try_variants(_, _)
try_variants(content, i) ==
    IF i > Len(variants) THEN [ok |-> FALSE, value |-> 0]   \* could not be opened
    ELSE IF variants[i] \in content.parses
    THEN [ok |-> TRUE, value |-> content.records]
    ELSE try_variants(content, i + 1)

count_sequences_in_fastq(content) == try_variants(content, 1)

(***************************************************************************)
(* direct_sequence_counts.                                                 *)
(***************************************************************************)
\* os.path.join, and the truth value of the string it returns
join(parts) == parts
truthy(path) == path # <<>>

\* the subdirectory searched for a project
choose_subdir(run_dir, project) ==
    IF truthy(join(<<"run_dir", "filtered_sequences">>))
    THEN [ok |-> TRUE, subdir |-> "filtered_sequences"]
    ELSE IF truthy(join(<<"run_dir", "trimmed_sequences">>))
    THEN [ok |-> TRUE, subdir |-> "trimmed_sequences"]
    ELSE [ok |-> FALSE, subdir |-> ""]

FastqExt == ".trimmed.fastq.gz"

\* glob's pattern '*_L%s_R?_001.trimmed.fastq.gz' on a basename
glob_fastq(name, lane) ==
    /\ Len(name) >= 4
    /\ name[Len(name) - 2] = <<"L">> \o lane
    /\ Len(name[Len(name) - 1]) = 2 /\ name[Len(name) - 1][1] = "R"
    /\ name[Len(name)] = <<"0", "0", "1", FastqExt>>

\* the code points of the characters of the filenames
ord(c) == CASE c = FastqExt -> 46
            [] c \in Digit -> 48 + (CHOOSE n \in 0..9 : DigitOf[n + 1] = c)
            [] c = "A" -> 65 [] c = "B" -> 66 [] c = "L" -> 76
            [] c = "R" -> 82 [] c = "S" -> 83 [] c = "X" -> 88
            [] c = "_" -> 95 [] c = "x" -> 120

\* the characters of a filename, its fields joined by underscores
RECURSIVE chars(_)
chars(name) == IF Len(name) <= 1 THEN (IF name = <<>> THEN <<>> ELSE name[1])
               ELSE name[1] \o <<"_">> \o chars(Tail(name))

\* a < b for strings
RECURSIVE str_less(_, _)
str_less(a, b) ==
    IF b = <<>> THEN FALSE
    ELSE IF a = <<>> THEN TRUE
    ELSE IF Head(a) # Head(b) THEN ord(Head(a)) < ord(Head(b))
    ELSE str_less(Tail(a), Tail(b))

\* sorted() of a set of files of one directory
RECURSIVE sorted(_)
sorted(files) ==
    IF files = {} THEN <<>>
    ELSE LET first == CHOOSE f \in files :
                 \A g \in files \ {f} : str_less(chars(f.name), chars(g.name))
         IN <<first>> \o sorted(files \ {first})

\* zip(fp_iter, fp_iter): the files two by two, a last single file left out
zip_pairs(fps) ==
    [k \in 1..(Len(fps) \div 2) |-> <<fps[2 * k - 1], fps[2 * k]>>]

\* the strict pattern on a basename: any prefix, "_S" and digits, "_L" and
\* three digits, "_R" and a digit, "_", three digits and the extension
reg_match(name) ==
    /\ Len(name) >= 5
    /\ LET cell == name[Len(name) - 3]
           lane == name[Len(name) - 2]
           read == name[Len(name) - 1]
           last == name[Len(name)]
       IN /\ Len(cell) >= 2 /\ cell[1] = "S" /\ AllDigits(Tail(cell))
          /\ Len(lane) = 4 /\ lane[1] = "L" /\ AllDigits(Tail(lane))
          /\ Len(read) = 2 /\ read[1] = "R" /\ read[2] \in Digit
          /\ Len(last) = 4 /\ AllDigits(SubSeq(last, 1, 3))
          /\ last[4] = FastqExt

\* group 1 of the strict pattern
reg_group1(name) == SubSeq(name, 1, Len(name) - 4)

\* what the body of the loop does with a pair: the row it appends, or the
\* ValueError it raises
pair_row(pair, lane) ==
    LET r1 == pair[1]
        r2 == pair[2]
        r1_counts == count_sequences_in_fastq(r1.content)
        r2_counts == count_sequences_in_fastq(r2.content)
    IN  IF ~reg_match(r1.name) \/ ~reg_match(r2.name)
        THEN [ok |-> FALSE, msg |-> "a sample-id could not be extracted"]
        ELSE IF reg_group1(r1.name) # reg_group1(r2.name)
        THEN [ok |-> FALSE,
              msg |-> "a matching sample-id could not be extracted"]
        ELSE IF ~r1_counts.ok \/ ~r2_counts.ok
        THEN [ok |-> FALSE, msg |-> "could not be opened"]
        ELSE [ok |-> TRUE, msg |-> "",
              row |-> [Sample_ID |-> reg_group1(r1.name),
                       Lane |-> lane,
                       quality_filtered_reads_r1r2 |->
                           Float(r1_counts.value + r2_counts.value)]]

\* the pairs of a (project, lane), in the order of the loop
lane_pairs(run_dir, project, lane) ==
    zip_pairs(sorted({f \in run_dir.files :
        /\ f.project = project
        /\ f.subdir = choose_subdir(run_dir, project).subdir
        /\ glob_fastq(f.name, zfill(lane, 3))}))

\* the possible ends of the call.  The (project, lane) pairs are iterated in the
\* order of a set, so the error raised is that of the first failing pair of
\* any (project, lane) that has one.
direct_sequence_counts(run_dir, metadata) ==
    LET todo == projects(metadata)
        pairs(pl) == lane_pairs(run_dir, pl[1], pl[2])
        failing(pl) == {k \in DOMAIN pairs(pl) : ~pair_row(pairs(pl)[k], pl[2]).ok}
        first(pl) == CHOOSE k \in failing(pl) : \A j \in failing(pl) : k <= j
    IN  IF \E pl \in todo : ~choose_subdir(run_dir, pl[1]).ok
        THEN {Raise("ValueError", "directories do not exist", {}, {})}
        ELSE IF \E pl \in todo : failing(pl) # {}
        THEN {Raise("ValueError", pair_row(pairs(pl)[first(pl)], pl[2]).msg, {}, {}) :
                 pl \in {q \in todo : failing(q) # {}}}
        ELSE {set_index(
                 [l \in UNION {{<<pl, k>> : k \in DOMAIN pairs(pl)} : pl \in todo}
                     |-> pair_row(pairs(l[1])[l[2]], l[1][2]).row])}

(***************************************************************************)
(* Specification SpecLocator: fastp_counts and minimap2_counts on run      *)
(* directories of at most MaxLogs log files, under every sample sheet      *)
(* drawn from SheetRows.                                                   *)
(***************************************************************************)
MaxLogs == 4

SheetRows ==
    {[Sample_ID |-> NameA, Sample_Project |-> "P", Lane |-> <<"1">>],
     [Sample_ID |-> NameA, Sample_Project |-> "P", Lane |-> <<"2">>],
     [Sample_ID |-> NameB, Sample_Project |-> "P", Lane |-> <<"1">>]}

\* <sample>_S<cell>_L<lane>_R<read>_001<suffix>
SeqName(sample, cell, lane, read, suffix) ==
    sample \o << <<"S">> \o cell, <<"L">> \o lane, <<"R", read>>,
                 <<"0", "0", "1">> \o suffix >>

\* <sample>_L<lane>_R<read>_001<suffix>, a name without its cell number
NoCellName(sample, lane, read, suffix) ==
    sample \o << <<"L">> \o lane, <<"R", read>>, <<"0", "0", "1">> \o suffix >>

LogNames(suffix) ==
    {SeqName(NameA, <<"1">>, <<"0", "0", "1">>, "1", suffix),
     SeqName(NameA, <<"2">>, <<"0", "0", "1">>, "1", suffix),
     SeqName(NameA, <<"1">>, <<"0", "0", "2">>, "1", suffix),
     SeqName(NameB, <<"3">>, <<"0", "0", "1">>, "1", suffix),
     SeqName(NameB, <<"4">>, <<"0", "0", "1">>, "1", suffix),
     SeqName(NameX, <<"8">>, <<"0", "0", "1">>, "1", suffix),
     SeqName(NameX, <<"9">>, <<"0", "0", "1">>, "1", suffix),
     SeqName(NameA, <<"1">>, <<"0", "0", "1">>, "2", suffix),
     NoCellName(NameX, <<"0", "0", "1">>, "1", suffix)}

\* the fastp reports of LogNames and three samtools logs, well-formed; the first
\* of each also malformed
LocatorFiles ==
    [project : {"P"}, subdir : {"json"}, name : LogNames(<<".json">>),
     content : {FastpReport(90)}]
    \cup
    [project : {"P"}, subdir : {"json"},
     name : {SeqName(NameA, <<"1">>, <<"0", "0", "1">>, "1", <<".json">>)},
     content : {FastpTruncated}]
    \cup
    [project : {"P"}, subdir : {"samtools"},
     name : {SeqName(NameA, <<"1">>, <<"0", "0", "1">>, "1", <<".log">>),
             SeqName(NameA, <<"2">>, <<"0", "0", "1">>, "1", <<".log">>),
             SeqName(NameX, <<"8">>, <<"0", "0", "1">>, "1", <<".log">>)},
     content : {SamtoolsLog(<<"4", "0">>)}]
    \cup
    [project : {"P"}, subdir : {"samtools"},
     name : {SeqName(NameA, <<"1">>, <<"0", "0", "1">>, "1", <<".log">>)},
     content : {SamtoolsOther}]

Path(f) == <<f.project, f.subdir, f.name>>

\* a file is written into a subdirectory of a project
AddFile(f, MaxF) ==
    /\ pc = "build"
    /\ Cardinality(fs.files) < MaxF
    /\ \A g \in fs.files : Path(g) # Path(f)
    /\ fs' = [fs EXCEPT !.files = @ \cup {f},
                        !.dirs = @ \cup {<<f.project, f.subdir>>}]
    /\ UNCHANGED <<pc, filename, sheet, result, locals>>

InitLocator == /\ pc = "build"
               /\ filename = <<>>
               /\ sheet \in (SUBSET SheetRows) \ {{}}
               /\ fs = EmptyRun
               /\ result = NoResult
               /\ locals = NoLocals

CallFastpCounts ==
    /\ pc = "build"
    /\ result' = fastp_counts(fs, sheet)
    /\ pc' = "fastp_done"
    /\ UNCHANGED <<filename, sheet, fs, locals>>

CallMinimap2Counts ==
    /\ pc = "build"
    /\ result' = minimap2_counts(fs, sheet)
    /\ pc' = "minimap2_done"
    /\ UNCHANGED <<filename, sheet, fs, locals>>

NextLocator ==
    \/ \E f \in LocatorFiles : AddFile(f, MaxLogs)
    \/ CallFastpCounts
    \/ CallMinimap2Counts

SpecLocator == InitLocator /\ [][NextLocator]_vars

(***************************************************************************)
(* Specification SpecDirect: direct_sequence_counts on run directories of  *)
(* at most MaxFastq fastq files in the projects' filtered_sequences and    *)
(* trimmed_sequences.  A directory exists when it holds a file.            *)
(***************************************************************************)
Fastq(n, vs) == [records |-> n, parses |-> vs]
AllVariants == {variants[i] : i \in 1..Len(variants)}

FastqNames ==
    {SeqName(NameA, <<"1">>, <<"0", "0", "1">>, "1", <<FastqExt>>),
     SeqName(NameA, <<"1">>, <<"0", "0", "1">>, "2", <<FastqExt>>),
     SeqName(NameA, <<"2">>, <<"0", "0", "1">>, "1", <<FastqExt>>),
     SeqName(NameB, <<"3">>, <<"0", "0", "1">>, "1", <<FastqExt>>),
     SeqName(NameB, <<"3">>, <<"0", "0", "1">>, "2", <<FastqExt>>),
     SeqName(NameA, <<"1">>, <<"0", "0", "1">>, "x", <<FastqExt>>)}

DirectFiles ==
    [project : {"P"}, subdir : {"filtered_sequences", "trimmed_sequences"},
     name : FastqNames, content : {Fastq(40, AllVariants), Fastq(1, {})}]

DirectSheets ==
    {sh \in SUBSET SheetRows :
        \E s \in sh : s.Sample_ID = NameA /\ s.Lane = <<"1">>}

InitDirect == /\ pc = "build"
              /\ filename = <<>>
              /\ sheet \in DirectSheets
              /\ fs = EmptyRun
              /\ result = NoResult
              /\ locals = NoLocals

CallDirectSequenceCounts ==
    /\ pc = "build"
    /\ result' \in direct_sequence_counts(fs, sheet)
    /\ pc' = "direct_done"
    /\ UNCHANGED <<filename, sheet, fs, locals>>

NextDirect ==
    \/ \E f \in DirectFiles : AddFile(f, MaxFastq)
    \/ CallDirectSequenceCounts

SpecDirect == InitDirect /\ [][NextDirect]_vars

(***************************************************************************)
(* Specification SpecCount: count_sequences_in_fastq, statement by         *)
(* statement, on one fastq file of at most MaxRecords records.  skb_read   *)
(* returns a generator: nothing is read before sum() asks for the first    *)
(* sequence, and an exception of the reader surfaces inside the try, at    *)
(* the sequence that raises it.  Under a variant the reader yields some    *)
(* sequences and then either ends (the file is read to its end), raises    *)
(* ValueError, or raises an exception of a class the except clause does    *)
(* not name ("Exception"), which leaves the function.                      *)
(***************************************************************************)
MaxRecords == 3

\* what reading a file of n records under one variant can do
skb_read(n) ==
    {[yields |-> n, raises |-> "none"]}
    \cup [yields : {k \in 0..n : k = 0 \/ k < n},
          raises : {"ValueError", "Exception"}]

FastqFiles ==
    UNION {[records : {n}, read : [AllVariants -> skb_read(n)]] :
              n \in 0..MaxRecords}

\* the generator of the variant of the running iteration
sequences == fs.read[variants[locals.variant]]

InitCount == /\ pc = "for"
             /\ filename = <<>>
             /\ sheet = {}
             /\ fs \in FastqFiles
             /\ result = NoResult
             /\ locals = [variant |-> 1, count |-> 0, tried |-> <<>>]

\* for variant in variants: try: sequences = skb_read(..., variant=variant);
\* tried records the variants skb_read was called with
ForVariant ==
    /\ pc = "for"
    /\ locals.variant <= Len(variants)
    /\ locals' = [locals EXCEPT !.count = 0,
                                !.tried = Append(@, variants[locals.variant])]
    /\ pc' = "sum"
    /\ UNCHANGED <<filename, sheet, fs, result>>

\* sum(1 for sequence in sequences): one more sequence
NextSequence ==
    /\ pc = "sum"
    /\ locals.count < sequences.yields
    /\ locals' = [locals EXCEPT !.count = @ + 1]
    /\ UNCHANGED <<pc, filename, sheet, fs, result>>

\* a mutant: the sum is kept but the loop goes on to the next variant
ReturnSum_continue ==
    /\ pc = "sum"
    /\ locals.count = sequences.yields
    /\ sequences.raises = "none"
    /\ result' = [kind |-> "count", error |-> "", msg |-> "",
                  value |-> locals.count]
    /\ locals' = [locals EXCEPT !.variant = @ + 1]
    /\ pc' = "for"
    /\ UNCHANGED <<filename, sheet, fs>>

\* return sum(...): the generator is exhausted
ReturnSum ==
    /\ pc = "sum"
    /\ locals.count = sequences.yields
    /\ sequences.raises = "none"
    /\ result' = [kind |-> "count", error |-> "", msg |-> "",
                  value |-> locals.count]
    /\ pc' = "count_done"
    /\ UNCHANGED <<filename, sheet, fs, locals>>

\* except ValueError: pass, and the loop goes on to the next variant
ExceptValueError ==
    /\ pc = "sum"
    /\ locals.count = sequences.yields
    /\ sequences.raises = "ValueError"
    /\ locals' = [locals EXCEPT !.variant = @ + 1]
    /\ pc' = "for"
    /\ UNCHANGED <<filename, sheet, fs, result>>

\* an exception the except clause does not name leaves the function
Propagate ==
    /\ pc = "sum"
    /\ locals.count = sequences.yields
    /\ sequences.raises \notin {"none", "ValueError"}
    /\ result' = Raise(sequences.raises, "", {}, {})
    /\ pc' = "count_done"
    /\ UNCHANGED <<filename, sheet, fs, locals>>

\* the loop is over: raise ValueError("... could not be opened")
RaiseCouldNotBeOpened ==
    /\ pc = "for"
    /\ locals.variant > Len(variants)
    /\ result' = Raise("ValueError", "could not be opened", {}, {})
    /\ pc' = "count_done"
    /\ UNCHANGED <<filename, sheet, fs, locals>>

NextCount ==
    \/ ForVariant
    \/ NextSequence
    \/ ReturnSum
    \/ ExceptValueError
    \/ Propagate
    \/ RaiseCouldNotBeOpened

SpecCount == InitCount /\ [][NextCount]_vars

(***************************************************************************)
(* run_counts.                                                             *)
(***************************************************************************)
HasKey(table, key) == \E r \in table : Key(r) = key
RowOf(table, key) == CHOOSE r \in table : Key(r) = key

\* the cell of a joined column: the value of the row of that key, or missing
joined_cell(table, key, column) ==
    IF HasKey(table, key) THEN RowOf(table, key)[column] ELSE NaN

\* a mutant: an outer join, the keys of every frame give a row
join_outer(left, trim, host, direct) ==
    {[Sample_ID |-> k[1], Lane |-> k[2],
      raw_reads_r1r2 |-> joined_cell(left, k, "raw_reads_r1r2"),
      total_biological_reads_r1r2 |->
          joined_cell(trim, k, "total_biological_reads_r1r2"),
      non_host_reads |-> joined_cell(host, k, "non_host_reads"),
      quality_filtered_reads_r1r2 |->
          joined_cell(direct, k, "quality_filtered_reads_r1r2")] :
     k \in {Key(r) : r \in left \cup trim \cup host \cup direct}}

\* DataFrame.join of a list of frames: a left join on the index
join_frames(left, trim, host, direct) ==
    {[Sample_ID |-> r.Sample_ID, Lane |-> r.Lane,
      raw_reads_r1r2 |-> r.raw_reads_r1r2,
      total_biological_reads_r1r2 |->
          joined_cell(trim, Key(r), "total_biological_reads_r1r2"),
      non_host_reads |-> joined_cell(host, Key(r), "non_host_reads"),
      quality_filtered_reads_r1r2 |->
          joined_cell(direct, Key(r), "quality_filtered_reads_r1r2")] :
     r \in left}

\* the quotient of two cells of float columns: missing if an operand is, or
\* if both are zero; infinite if only the divisor is zero
truediv(a, b) ==
    IF a = NaN \/ b = NaN THEN NaN
    ELSE IF b[2] = 0 THEN (IF a[2] = 0 THEN NaN ELSE Inf)
    ELSE Quot(a[2] * b[3], a[3] * b[2])

\* fillna(value='NA') on a cell
fillna(v) == IF v = NaN THEN NA ELSE v

convenience_columns(r) ==
    r @@ [fraction_passing_quality_filter |->
              truediv(r.quality_filtered_reads_r1r2, r.raw_reads_r1r2),
          fraction_non_human |->
              truediv(r.non_host_reads, r.quality_filtered_reads_r1r2)]

Columns == {"raw_reads_r1r2", "total_biological_reads_r1r2", "non_host_reads",
            "quality_filtered_reads_r1r2", "fraction_passing_quality_filter",
            "fraction_non_human"}

fillna_row(r) ==
    [c \in DOMAIN r |-> IF c \in Columns THEN fillna(r[c]) ELSE r[c]]

\* the possible ends of run_counts: the four frames are computed in the order
\* written, the first error is raised, the warnings emitted until then stay
run_counts(run_dir, metadata) ==
    LET demux == bcl2fastq_counts(run_dir)
        trim == fastp_counts(run_dir, metadata)
        host == minimap2_counts(run_dir, metadata)
        w2 == trim.warnings \cup host.warnings
    IN  IF demux.kind = "error" THEN {demux}
        ELSE IF trim.kind = "error" THEN {trim}
        ELSE IF host.kind = "error" THEN {[host EXCEPT !.warnings = w2]}
        ELSE {IF direct.kind = "error"
              THEN [direct EXCEPT !.warnings = w2]
              ELSE Returned({fillna_row(convenience_columns(r)) :
                               r \in join_frames(demux.table, trim.table,
                                                 host.table, direct.table)},
                            w2) :
              direct \in direct_sequence_counts(run_dir, metadata)}

(***************************************************************************)
(* Specification SpecRun: run_counts on run directories with the reports   *)
(* of at most MaxRunRows rows and the files of RunFiles.                   *)
(***************************************************************************)
MaxRunRows == 2

RunSheets ==
    {{[Sample_ID |-> NameA, Sample_Project |-> "P", Lane |-> <<"1">>]},
     {[Sample_ID |-> NameA, Sample_Project |-> "P", Lane |-> <<"1">>],
      [Sample_ID |-> NameB, Sample_Project |-> "P", Lane |-> <<"1">>]}}

RunSamples == {NameA, NameB}
RunReads == {0, 100}

RunName(sample, cell, read, suffix) ==
    SeqName(sample, cell, <<"0", "0", "1">>, read, suffix)

RunFiles ==
    [project : {"P"}, subdir : {"json"},
     name : {RunName(NameA, <<"1">>, "1", <<".json">>)},
     content : {FastpReport(90), FastpReport(0)}]
    \cup
    [project : {"P"}, subdir : {"json"},
     name : {RunName(NameB, <<"3">>, "1", <<".json">>)},
     content : {FastpReport(90)}]
    \cup
    [project : {"P"}, subdir : {"samtools"},
     name : {RunName(NameA, <<"1">>, "1", <<".log">>)},
     content : {SamtoolsLog(<<"4", "0">>), SamtoolsLog(<<"0">>)}]
    \cup
    [project : {"P"}, subdir : {"filtered_sequences"},
     name : {RunName(NameA, <<"1">>, "1", <<FastqExt>>),
             RunName(NameA, <<"1">>, "2", <<FastqExt>>)},
     content : {Fastq(40, AllVariants), Fastq(0, AllVariants)}]

InitRun == /\ pc = "build"
           /\ filename = <<>>
           /\ sheet \in RunSheets
           /\ fs = EmptyRun
           /\ result = NoResult
           /\ locals = NoLocals

CallRunCounts ==
    /\ pc = "build"
    /\ result' \in run_counts(fs, sheet)
    /\ pc' = "run_done"
    /\ UNCHANGED <<filename, sheet, fs, locals>>

NextRun ==
    \/ TouchStats(EmptyDoc)
    \/ AddLane([LaneNumber |-> 1, DemuxResults |-> <<>>], 1)
    \/ \E s \in RunSamples, n \in RunReads : AddDemuxResult(s, n, MaxRunRows)
    \/ TouchCsv
    \/ \E s \in RunSamples, n \in RunReads : AddCsvRow(s, 1, n, MaxRunRows)
    \/ \E f \in RunFiles : AddFile(f, Cardinality(RunFiles))
    \/ CallRunCounts

SpecRun == InitRun /\ [][NextRun]_vars

(***************************************************************************)
(* Claims.                                                                 *)
(***************************************************************************)

\* the filename convention <name>_S<cellnum>_L<lane>_<R|I><1|2>..., with the
\* cell number at field i: 1 to 4 digits of cell number, 1 to 3 of lane
ConventionAt(fn, i) ==
    /\ i > 1 /\ i + 2 <= Len(fn)
    /\ fn[i][1] = "S" /\ Len(fn[i]) - 1 \in 1..4
    /\ \A k \in 2..Len(fn[i]) : fn[i][k] \in Digit
    /\ fn[i + 1][1] = "L" /\ Len(fn[i + 1]) - 1 \in 1..3
    /\ \A k \in 2..Len(fn[i + 1]) : fn[i + 1][k] \in Digit
    /\ Len(fn[i + 2]) >= 2
    /\ fn[i + 2][1] \in {"R", "I"} /\ fn[i + 2][2] \in {"1", "2"}

\* l is the digit string ds without its leading zeros
IsStripped(l, ds) ==
    \E k \in 0..Len(ds) :
        /\ \A j \in 1..k : ds[j] = "0"
        /\ l = SubSeq(ds, k + 1, Len(ds))
        /\ l = <<>> \/ l[1] # "0"

\* C5: _extract_name_and_lane returns (name, lane) of a reading of the filename
\* under the convention, the lane without its 'L' and without leading zeros,
\* when the filename has such a reading, and raises when it has none.
C5_ExtractNameAndLane ==
    pc = "name_done" =>
        LET readings == {i \in 1..Len(filename) : ConventionAt(filename, i)} IN
        IF readings # {}
        THEN /\ result.ok
             /\ \E i \in readings :
                    /\ result.name = SubSeq(filename, 1, i - 1)
                    /\ IsStripped(result.lane, Tail(filename[i + 1]))
        ELSE ~result.ok

C5_Witness ==
    /\ pc = "name_done"
    /\ result.ok
    /\ result.name = << <<"A">> >>
    /\ result.lane = <<"1", "0">>
    /\ filename[3] = <<"L", "0", "1", "0">>

\* the keys of a table are pairwise distinct
UniquelyKeyed(t) == \A r1, r2 \in t : Key(r1) = Key(r2) => r1 = r2

ExactlyOneReport == fs.stats.exists # fs.csv.exists

\* the structured report lacks a key or holds no lane or no result
StatsMalformed ==
    /\ fs.stats.exists /\ ~fs.csv.exists
    /\ \/ "ConversionResults" \notin DOMAIN fs.stats.doc
       \/ LET lanes == fs.stats.doc.ConversionResults IN
          \/ \E i \in 1..Len(lanes) : "DemuxResults" \notin DOMAIN lanes[i]
          \/ DemuxResultCount(lanes) = 0

\* the report repeats a (sample, lane): among the determined rows of the
\* tabular report, among the results of the structured report
RepeatsKey ==
    IF fs.csv.exists
    THEN \E i, j \in 1..Len(fs.csv.rows) :
            /\ i < j
            /\ fs.csv.rows[i].SampleID # Undetermined
            /\ fs.csv.rows[i].SampleID = fs.csv.rows[j].SampleID
            /\ fs.csv.rows[i].Lane = fs.csv.rows[j].Lane
    ELSE LET lanes == fs.stats.doc.ConversionResults IN
         \E i, j \in 1..Len(lanes) :
            \E a \in 1..Len(lanes[i].DemuxResults),
               b \in 1..Len(lanes[j].DemuxResults) :
                /\ <<i, a>> # <<j, b>>
                /\ lanes[i].LaneNumber = lanes[j].LaneNumber
                /\ lanes[i].DemuxResults[a].SampleId
                     = lanes[j].DemuxResults[b].SampleId

ReportDefect == StatsMalformed \/ RepeatsKey

\* C1 as stated (of the reports that hold every key and a result): with
\* exactly one report bcl2fastq_counts returns a uniquely keyed table; with
\* both or neither it raises IOError and returns no table.
C1_Original ==
    pc = "demux_done" /\ ~StatsMalformed =>
        IF ExactlyOneReport
        THEN result.kind = "table" /\ UniquelyKeyed(result.table)
        ELSE result.kind = "error" /\ result.error = "IOError"

\* C1 amended: with exactly one report bcl2fastq_counts never raises IOError;
\* it returns a uniquely keyed table, unless the report repeats a (sample, lane)
\* or is malformed or empty, and then it raises ValueError or KeyError.  With
\* both or neither report it raises IOError and returns no table.
C1_DemuxOutcome ==
    pc = "demux_done" =>
        IF ExactlyOneReport
        THEN IF ReportDefect
             THEN /\ result.kind = "error"
                  /\ result.error \in {"ValueError", "KeyError"}
             ELSE /\ result.kind = "table"
                  /\ UniquelyKeyed(result.table)
        ELSE /\ result.kind = "error"
             /\ result.error = "IOError"
             /\ result.table = {}

C1_Witness ==
    /\ pc = "demux_done"
    /\ fs.csv.exists /\ ~fs.stats.exists
    /\ Len(fs.csv.rows) = 3
    /\ result.kind = "table"
    /\ Cardinality(result.table) = 2

\* the stage a finished call of the Log Locator worked on
LocatorDone == pc \in {"fastp_done", "minimap2_done"}
StageSubdir == IF pc = "fastp_done" THEN "json" ELSE "samtools"
StageSuffix == IF pc = "fastp_done" THEN <<".json">> ELSE <<".log">>
StageCall(run_dir) == IF pc = "fastp_done" THEN fastp_counts(run_dir, sheet)
                      ELSE minimap2_counts(run_dir, sheet)

\* the files the stage locates: in the stage's subdirectory of a project of
\* the sheet, named *_L<lane>_R1_001<suffix> for a lane the project has
LocatedFiles ==
    {f \in fs.files :
        /\ f.subdir = StageSubdir
        /\ \E s \in sheet :
              /\ f.project = s.Sample_Project
              /\ glob_log(f.name, zfill(s.Lane, 3), StageSuffix)}

Conforms(f) == _extract_name_and_lane(f.name).ok
Resolved(f) == <<_extract_name_and_lane(f.name).name,
                 _extract_name_and_lane(f.name).lane>>

\* the (sample, lane) pairs that two or more located files resolve to
Colliding ==
    {Resolved(f) : f \in {g \in LocatedFiles :
        /\ Conforms(g)
        /\ \E h \in LocatedFiles :
              h # g /\ Conforms(h) /\ Resolved(h) = Resolved(g)}}

CollidingInSheet == {k \in Colliding : k[1] \in {s.Sample_ID : s \in sheet}}

\* C2 as stated: whenever two or more located files resolve to the same
\* (Sample_ID, Lane), the stage fails with the duplicate-match error, whose
\* message lists every colliding pair.
C2_Original ==
    LocatorDone /\ Colliding # {} =>
        /\ result.kind = "error"
        /\ result.msg = "Multiple matches found"
        /\ Colliding \subseteq result.pairs

\* C2 amended: whenever two or more located files resolve to the same
\* (Sample_ID, Lane) of a Sample_ID of the sheet, and every located filename
\* matches the convention, the stage fails with the duplicate-match error,
\* whose message lists exactly the colliding pairs of the sheet's samples; and
\* no table the stage returns has a row of a colliding pair.
C2_DuplicateMatch ==
    LocatorDone =>
        /\ (CollidingInSheet # {} /\ \A f \in LocatedFiles : Conforms(f))
              => /\ result.kind = "error"
                 /\ result.error = "ValueError"
                 /\ result.msg = "Multiple matches found"
                 /\ result.pairs = CollidingInSheet
        /\ result.kind = "table"
              => \A r \in result.table : Key(r) \notin Colliding

C2_Witness ==
    /\ pc = "fastp_done"
    /\ Cardinality(LocatedFiles) = 4
    /\ result.kind = "error"
    /\ result.pairs = {<<NameA, <<"1">>>>, <<NameB, <<"1">>>>}

\* the rows of the sheet with no located log of their project, sample and lane
Missing ==
    {s \in sheet :
        ~\E f \in LocatedFiles :
            /\ f.project = s.Sample_Project
            /\ Conforms(f)
            /\ Resolved(f) = <<s.Sample_ID, s.Lane>>}

\* every retained log can be parsed
LogsWellFormed ==
    \A f \in LocatedFiles :
        IF pc = "fastp_done" THEN _parse_fastp_counts(f.content).ok
        ELSE _parse_samtools_counts(f.content).ok

\* C3: if a sample/lane of the sheet has no matching log, the stage does not
\* fail, warns with the names of the missing samples, and returns a table
\* without that row, whatever other files are present (none of which makes the
\* stage fail by itself here).
C3_MissingWarned ==
    (/\ LocatorDone
     /\ Missing # {}
     /\ \A f \in LocatedFiles : Conforms(f)
     /\ Colliding = {}
     /\ LogsWellFormed)
    => /\ result.kind = "table"
       /\ \E w \in result.warnings : {s.Sample_ID : s \in Missing} \subseteq w
       /\ \A s \in Missing, r \in result.table : Key(r) # <<s.Sample_ID, s.Lane>>

\* what a call returned or raised, its warnings left out
Outcome(r) == [kind |-> r.kind, error |-> r.error, msg |-> r.msg,
               pairs |-> r.pairs, table |-> r.table]

Without(f) == [fs EXCEPT !.files = @ \ {f}]

\* C9 as stated: every located file whose sample is no Sample_ID of the sheet
\* is discarded: the call raises or returns what it does without the file.
C9_Original ==
    LocatorDone =>
        \A f \in LocatedFiles :
            (~Conforms(f) \/ Resolved(f)[1] \notin {s.Sample_ID : s \in sheet})
                => Outcome(result) = Outcome(StageCall(Without(f)))

\* C9 amended: every located file whose name matches the filename convention
\* and whose sample is no Sample_ID of the sheet is discarded: the call raises
\* or returns what it does without the file.  (A located file whose name does
\* not match the convention makes the call fail.)
C9_OutsideSheetDiscarded ==
    LocatorDone =>
        /\ \A f \in LocatedFiles :
              (Conforms(f) /\ Resolved(f)[1] \notin {s.Sample_ID : s \in sheet})
                  => Outcome(result) = Outcome(StageCall(Without(f)))
        /\ (\E f \in LocatedFiles : ~Conforms(f))
              => /\ result.kind = "error"
                 /\ result.msg = "Unrecognized filename pattern"

C9_Witness ==
    /\ LocatorDone
    /\ \E f \in LocatedFiles : Conforms(f) /\ Resolved(f)[1] = NameX
    /\ result.kind = "table"
    /\ Cardinality(result.table) = 2

\* the files the glob of a (project, lane) of the sheet matches in a
\* subdirectory
Globbed(subdir) ==
    {f \in fs.files :
        /\ f.subdir = subdir
        /\ \E s \in sheet : /\ f.project = s.Sample_Project
                            /\ glob_fastq(f.name, zfill(s.Lane, 3))}

\* the forward and reverse files of a sample and lane in a subdirectory, both
\* well named and readable, and the only files of the lane there
OnlyPair(subdir, s, r1, r2) ==
    /\ {r1, r2} = {f \in Globbed(subdir) : f.project = s.Sample_Project}
    /\ r1.name = SeqName(s.Sample_ID, <<"1">>, zfill(s.Lane, 3), "1", <<FastqExt>>)
    /\ r2.name = SeqName(s.Sample_ID, <<"1">>, zfill(s.Lane, 3), "2", <<FastqExt>>)
    /\ count_sequences_in_fastq(r1.content).ok
    /\ count_sequences_in_fastq(r2.content).ok

\* C8: the files are searched in whichever of filtered_sequences and
\* trimmed_sequences exists: when only trimmed_sequences exists for the project
\* and holds the pair of files of a sample and lane of the sheet, the pair is
\* counted.
C8_TrimmedCounted ==
    pc = "direct_done" =>
        \A s \in sheet, r1, r2 \in fs.files :
            (/\ <<s.Sample_Project, "filtered_sequences">> \notin fs.dirs
             /\ <<s.Sample_Project, "trimmed_sequences">> \in fs.dirs
             /\ OnlyPair("trimmed_sequences", s, r1, r2))
            => /\ result.kind = "table"
               /\ \E r \in result.table :
                     /\ Key(r) = <<s.Sample_ID, s.Lane>>
                     /\ r.quality_filtered_reads_r1r2 =
                          Float(r1.content.records + r2.content.records)

\* C10: when the call returns, every file the glob matched was counted in a
\* pair: with another matched file of the same sample id, in a row of that
\* sample id whose count is the sum of their record counts.
C10_EveryFileCounted ==
    (pc = "direct_done" /\ result.kind = "table") =>
        \A f \in Globbed("filtered_sequences") :
            \E g \in Globbed("filtered_sequences") \ {f}, r \in result.table :
                /\ reg_group1(f.name) = r.Sample_ID
                /\ reg_group1(g.name) = r.Sample_ID
                /\ r.quality_filtered_reads_r1r2 =
                     Float(f.content.records + g.content.records)

\* the keys of the demultiplexing report that exists, read off the report
DemuxKeys ==
    IF fs.csv.exists
    THEN {<<fs.csv.rows[i].SampleID, str(fs.csv.rows[i].Lane)>> :
             i \in 1..Len(fs.csv.rows)}
    ELSE UNION {{<<b.DemuxResults[i].SampleId, str(b.LaneNumber)>> :
                    i \in 1..Len(b.DemuxResults)} :
                b \in {fs.stats.doc.ConversionResults[j] :
                          j \in 1..Len(fs.stats.doc.ConversionResults)}}

RunReturned == pc = "run_done" /\ result.kind = "table"

\* a cell of a count column holds a number
Present(v) == v[1] = "num"

\* C4 as stated: a fraction is the quotient of its operands when both are
\* present and the divisor is not zero, and the marker 'NA' in every other
\* case, a positive number over zero included.
C4_Fractions ==
    RunReturned =>
        \A r \in result.table :
            /\ r.fraction_passing_quality_filter =
                 IF /\ Present(r.quality_filtered_reads_r1r2)
                    /\ Present(r.raw_reads_r1r2)
                    /\ r.raw_reads_r1r2[2] # 0
                 THEN Quot(r.quality_filtered_reads_r1r2[2] * r.raw_reads_r1r2[3],
                           r.quality_filtered_reads_r1r2[3] * r.raw_reads_r1r2[2])
                 ELSE NA
            /\ r.fraction_non_human =
                 IF /\ Present(r.non_host_reads)
                    /\ Present(r.quality_filtered_reads_r1r2)
                    /\ r.quality_filtered_reads_r1r2[2] # 0
                 THEN Quot(r.non_host_reads[2] * r.quality_filtered_reads_r1r2[3],
                           r.non_host_reads[3] * r.quality_filtered_reads_r1r2[2])
                 ELSE NA

\* the log of a stage for a sample and lane: <sample>_S<cell>_L<lane>_R<read>_001<suffix>
IsFileOf(f, s, subdir, read, suffix) ==
    /\ f.project = s.Sample_Project
    /\ f.subdir = subdir
    /\ \E cell \in {<<"1">>, <<"3">>} :
          f.name = SeqName(s.Sample_ID, cell, zfill(s.Lane, 3), read, suffix)

\* C6: for a sample of the sheet with a row of the tabular report of n reads,
\* a fastp report of t reads after filtering, a samtools log of h processed
\* reads and filtered fastq files of f and r records, the row of the sample
\* and lane holds 2n, t, h/2, f + r, and the fractions (f + r)/2n and
\* (h/2)/(f + r) where the divisor is not zero.
C6_EndToEnd ==
    RunReturned =>
        \A s \in sheet, i \in 1..Len(fs.csv.rows), j, m, r1, r2 \in fs.files :
            (/\ fs.csv.rows[i].SampleID = s.Sample_ID
             /\ str(fs.csv.rows[i].Lane) = s.Lane
             /\ IsFileOf(j, s, "json", "1", <<".json">>)
             /\ "summary" \in DOMAIN j.content
             /\ "after_filtering" \in DOMAIN j.content.summary
             /\ IsFileOf(m, s, "samtools", "1", <<".log">>)
             /\ Len(m.content) = 1
             /\ IsFileOf(r1, s, "filtered_sequences", "1", <<FastqExt>>)
             /\ IsFileOf(r2, s, "filtered_sequences", "2", <<FastqExt>>))
            => LET n == fs.csv.rows[i].Reads
                   t == j.content.summary.after_filtering.total_reads
                   h == int(m.content[1][3])
                   q == r1.content.records + r2.content.records
               IN \E r \in result.table :
                   /\ Key(r) = <<s.Sample_ID, s.Lane>>
                   /\ r.raw_reads_r1r2 = Float(2 * n)
                   /\ r.total_biological_reads_r1r2 = Float(t)
                   /\ r.non_host_reads = Quot(h, 2)
                   /\ r.quality_filtered_reads_r1r2 = Float(q)
                   /\ n # 0 => r.fraction_passing_quality_filter = Quot(q, 2 * n)
                   /\ q # 0 => r.fraction_non_human = Quot(h, 2 * q)

\* the scenario of the specification: 100 reads, 90, 40 and 80 give
\* 200, 90, 20, 80, 0.4 and 0.25
C6_Witness ==
    /\ RunReturned
    /\ fs.csv.rows = <<[SampleID |-> NameA, Lane |-> 1, Reads |-> 100]>>
    /\ [Sample_ID |-> NameA, Lane |-> <<"1">>,
        raw_reads_r1r2 |-> <<"num", 200, 1>>,
        total_biological_reads_r1r2 |-> <<"num", 90, 1>>,
        non_host_reads |-> <<"num", 20, 1>>,
        quality_filtered_reads_r1r2 |-> <<"num", 80, 1>>,
        fraction_passing_quality_filter |-> <<"num", 2, 5>>,
        fraction_non_human |-> <<"num", 1, 4>>] \in result.table

\* C7: the keys of the output are the keys of the demultiplexing table, one row
\* each; a key of the demultiplexing table that the table of a later stage
\* lacks has the marker 'NA' in the column of that stage; a key that only the
\* table of a later stage has adds no row.
C7_LeftJoin ==
    RunReturned =>
        /\ {Key(r) : r \in result.table} = DemuxKeys
        /\ Cardinality(result.table) = Cardinality(DemuxKeys)
        /\ \A r \in result.table :
              /\ ~HasKey(fastp_counts(fs, sheet).table, Key(r))
                    => r.total_biological_reads_r1r2 = NA
              /\ ~HasKey(minimap2_counts(fs, sheet).table, Key(r))
                    => r.non_host_reads = NA
              /\ \A d \in direct_sequence_counts(fs, sheet) :
                    ~HasKey(d.table, Key(r))
                        => r.quality_filtered_reads_r1r2 = NA

C7_Witness ==
    /\ RunReturned
    /\ HasKey(fastp_counts(fs, sheet).table, <<NameB, <<"1">>>>)
    /\ ~HasKey(result.table, <<NameB, <<"1">>>>)
    /\ \E r \in result.table :
          /\ r.total_biological_reads_r1r2 = NA
          /\ r.non_host_reads # NA


(***************************************************************************)
(* count_sequences_in_fastq: the order of the conventions.                 *)
(***************************************************************************)
FixedOrder == <<"illumina1.8", "illumina1.3", "sanger">>

CountDone == pc = "count_done"
Parses(v) == fs.read[v].raises = "none"
Fails(v) == fs.read[v].raises = "ValueError"

\* the k-th convention is the first one that does not end in a format error
FirstNotFailing(k) ==
    /\ k \in 1..Len(FixedOrder)
    /\ ~Fails(FixedOrder[k])
    /\ \A j \in 1..(k - 1) : Fails(FixedOrder[j])

CouldNotBeOpened ==
    /\ result.kind = "error"
    /\ result.error = "ValueError"
    /\ result.msg = "could not be opened"

\* C11: count_sequences_in_fastq tries the conventions in the order
\* illumina1.8, illumina1.3, sanger; a convention is tried only after every
\* earlier one ended in a format error (ValueError), so none is tried after a
\* success; when the first convention that does not end in a format error
\* reads the file to its end, the call returns the number of records of the
\* file, counted under that convention alone; and the call fails with the
\* could-not-be-opened error exactly when all three conventions end in a
\* format error.  (An exception of another class is no format error to the
\* code: it leaves the call at the convention that raises it.)
C11_FirstParsingConvention ==
    /\ pc \in {"for", "sum", "count_done"} =>
        /\ Len(locals.tried) <= Len(FixedOrder)
        /\ \A k \in 1..Len(locals.tried) : locals.tried[k] = FixedOrder[k]
        /\ \A k \in 1..(Len(locals.tried) - 1) : Fails(FixedOrder[k])
    /\ CountDone =>
        /\ \A k \in 1..Len(FixedOrder) :
              FirstNotFailing(k) /\ Parses(FixedOrder[k]) =>
                  /\ result.kind = "count"
                  /\ result.value = fs.records
                  /\ locals.tried = SubSeq(FixedOrder, 1, k)
        /\ result.kind = "count" =>
              /\ FirstNotFailing(Len(locals.tried))
              /\ Parses(FixedOrder[Len(locals.tried)])
        /\ CouldNotBeOpened <=> \A k \in 1..Len(FixedOrder) : Fails(FixedOrder[k])
        /\ CouldNotBeOpened => locals.tried = FixedOrder
        /\ (\A k \in 1..Len(FixedOrder) :
               fs.read[FixedOrder[k]].raises # "Exception") =>
              /\ count_sequences_in_fastq(
                     Fastq(fs.records,
                           {v \in AllVariants : Parses(v)})).ok
                 = (result.kind = "count")
              /\ result.kind = "count" =>
                    result.value =
                        count_sequences_in_fastq(
                            Fastq(fs.records,
                                  {v \in AllVariants : Parses(v)})).value

\* a file of three records that the first convention reads for two records
\* before its format error, and that the second and the third convention both
\* read to the end: the call returns 3 after two tries
C11_Witness ==
    /\ CountDone
    /\ fs.records = 3
    /\ fs.read["illumina1.8"] = [yields |-> 2, raises |-> "ValueError"]
    /\ Parses("illumina1.3")
    /\ Parses("sanger")
    /\ result.kind = "count"
    /\ result.value = 3
    /\ locals.tried = <<"illumina1.8", "illumina1.3">>

=============================================================================
